---- MODULE Spec2Model ----
(***************************************************************************)
(* hipsternet/optimization.py: the minibatch sampler and the six           *)
(* first-order optimizers (sgd, momentum, nesterov, adagrad, rmsprop,      *)
(* adam) as a state machine.                                               *)
(*                                                                         *)
(* Numbers.  NumPy float64 values are modelled as rationals [n, d] in      *)
(* lowest terms.  +, - and * are exact; the two inexact operations of the  *)
(* code, "/" and np.sqrt, round their result towards zero onto the grid    *)
(* 1/Precision (a finite-precision model of float rounding).  A parameter  *)
(* array is modelled by one scalar per key: every operation of the code is *)
(* element-wise.                                                           *)
(***************************************************************************)
EXTENDS Integers, Sequences, FiniteSets, TLC

\* ------------------------------------------------------------------ bounds
\* Largest n_iter of a call (and, in a session of several calls, the total
\* number of iterations).
MaxIter == 2
\* Largest number of training calls in one session of FairSpec.
MaxCalls == 2
\* Largest dataset handed to get_minibatch in SpecMB.
MaxRows == 5

\* --------------------------------------------------------------- rationals
Abs(x) == IF x < 0 THEN -x ELSE x

Min(a, b) == IF a < b THEN a ELSE b

RECURSIVE GCD(_, _)
GCD(a, b) == IF b = 0 THEN a ELSE GCD(b, a % b)

Rat(n, d) == LET g == GCD(Abs(n), d) IN [n |-> n \div g, d |-> d \div g]

Zero == [n |-> 0, d |-> 1]

One == [n |-> 1, d |-> 1]

RNeg(a) == [n |-> -a.n, d |-> a.d]

RAbs(a) == [n |-> Abs(a.n), d |-> a.d]

RAdd(a, b) ==
    LET g == GCD(a.d, b.d)
    IN  Rat(a.n * (b.d \div g) + b.n * (a.d \div g), (a.d \div g) * b.d)

RSub(a, b) == RAdd(a, RNeg(b))

RMul(a, b) ==
    LET g1 == GCD(Abs(a.n), b.d)
        g2 == GCD(Abs(b.n), a.d)
    IN  Rat((a.n \div g1) * (b.n \div g2), (a.d \div g2) * (b.d \div g1))

RECURSIVE RPow(_, _)
RPow(a, t) == IF t = 0 THEN One ELSE RMul(a, RPow(a, t - 1))

\* Digits of the rounding grid and the grid itself.
Digits == 1 + 2

Precision == 10 ^ Digits

\* The first k decimal digits of r/d (0 <= r < d), as an integer.
RECURSIVE Expand(_, _, _)
Expand(r, d, k) ==
    IF k = 0 THEN 0
    ELSE ((r * 10) \div d) * (10 ^ (k - 1)) + Expand((r * 10) % d, d, k - 1)

\* floor(n/d * 10^k) for n >= 0, d > 0.
Scaled(n, d, k) == (n \div d) * (10 ^ k) + Expand(n % d, d, k)

\* a / b, rounded towards zero onto the grid (b # 0).
RDiv(a, b) ==
    LET sgn == IF (a.n < 0) # (b.n < 0) THEN -1 ELSE 1
        q == RMul(RAbs(a), [n |-> b.d, d |-> Abs(b.n)])
    IN  Rat(sgn * Scaled(q.n, q.d, Digits), Precision)

\* The integer square root of x >= 0, by bisection on lo^2 <= x < hi^2.
RECURSIVE ISqrtB(_, _, _)
ISqrtB(x, lo, hi) ==
    IF hi - lo <= 1 THEN lo
    ELSE LET mid == (lo + hi) \div 2
         IN  IF mid * mid <= x THEN ISqrtB(x, mid, hi) ELSE ISqrtB(x, lo, mid)

ISqrt(x) == ISqrtB(x, 0, 46341)

\* np.sqrt(a) for a >= 0, rounded towards zero onto the grid.
RSqrt(a) == Rat(ISqrt(Scaled(a.n, a.d, 2 * Digits)), Precision)

\* int -> float64 (np.column_stack promotes the labels to the float dtype).
ToFloat(i) == Rat(i, 1)

\* float64 -> int (ndarray.astype(int) truncates towards zero).
AsInt(a) == IF a.n < 0 THEN -(Abs(a.n) \div a.d) ELSE a.n \div a.d

\* ------------------------------------------------------- minibatch sampler
\* The permutations of 1..n: the outcomes of np.random.shuffle on n rows.
Perms(n) == {p \in [1..n -> 1..n] : \A i, j \in 1..n : p[i] = p[j] => i = j}

\* shuffle(X, y) under the permutation p: the rows of column_stack((X, y)),
\* permuted jointly, split back into the features and the labels cast to int.
shuffle(X, y, p) ==
    LET Z == [i \in 1..Len(X) |-> <<ToFloat(X[i]), ToFloat(y[i])>>]
        S == [i \in 1..Len(X) |-> Z[p[i]]]
    IN  [X |-> [i \in 1..Len(X) |-> S[i][1]],
         y |-> [i \in 1..Len(X) |-> AsInt(S[i][2])]]

\* The upper index of the slice X[i:i + minibatch_size].
SliceEnd_short(i, size) == i + size - 1

SliceEnd(i, size) == i + size

\* The loop "for i in range(0, X.shape[0], minibatch_size)" from row i on; a
\* slice that runs past the last row is cut at the last row.
RECURSIVE Slices(_, _, _, _)
Slices(X, y, i, size) ==
    IF i >= Len(X) THEN <<>>
    ELSE LET e == Min(SliceEnd(i, size), Len(X))
         IN  <<[X |-> SubSeq(X, i + 1, e), y |-> SubSeq(y, i + 1, e)]>>
                 \o Slices(X, y, i + size, size)

\* get_minibatch(X, y, minibatch_size): one result per outcome of the shuffle.
get_minibatch(X, y, minibatch_size) ==
    {LET s == shuffle(X, y, p) IN Slices(s.X, s.y, 0, minibatch_size) :
        p \in Perms(Len(X))}

\* The dataset of n rows: row i has the feature i and the label i mod 3.
LabelOf(i) == i % 3

DataX(n) == [i \in 1..n |-> i]

DataY(n) == [i \in 1..n |-> LabelOf(i)]

\* ------------------------------------------------------------ the program
Keys == {"W1", "W2"}

CacheKeys == {"c1"}

Optimizers == {"sgd", "momentum", "nesterov", "adagrad", "rmsprop", "adam"}

\* Hyperparameters fixed in the code.
gamma == Rat(9, 10)

beta1 == Rat(9, 10)

beta2 == Rat(999, 1000)

\* hipsternet.constant.eps: a small positive constant (here one grid step).
eps == Rat(1, Precision)

\* Inputs of a session.
Alphas == {Rat(1, 10), Rat(1, 2)}

MbSizes == {1, 2}

LogIntervals == {1, 2}

TrainSizes == {0, 1, 2}

InitParams == [k \in Keys |-> IF k = "W1" THEN Rat(10, 1) ELSE Rat(-1, 1)]

NoState == <<>>

NoMini == [X |-> <<>>, y |-> <<>>]

NoModel == [net_params |-> <<>>, caches |-> 0]

\* The dictionary id of model['caches'].
ModelCaches == 1

VARIABLES
    net_params,   \* model['net_params']: key -> value
    dicts,        \* the cache dictionaries on the heap: id -> (key -> object id)
    objs,         \* the cached objects on the heap: object id -> content
    X_train, y_train, alpha, mb_size, print_after,   \* arguments of the calls
    oracle,       \* which gradient oracle nn.train_step is
    calls_left, budget,   \* calls and iterations the session may still make
    opt,          \* the entry point that is running (or ran last)
    n_iter, pc, iter, idx, minibatches, mini, grad, loss,
    velocity, cache, M, R, m_hat, r_hat, model_ahead,
    ret,          \* the object the call returned
    out,          \* the lines printed by the current call
    oracle_calls, updates, shuffles, picks,   \* per-call counters
    params0, dicts0, objs0,   \* the model when the call was entered
    before,       \* net_params when the current iteration began
    objs_before,  \* objs when the current iteration began
    grad_sum,     \* per key, the sum of the gradients applied by this call
    losses,       \* the losses the oracle returned in this call, in order
    wrote         \* what the oracle's last invocation did to the caches

vars == <<net_params, dicts, objs, X_train, y_train, alpha, mb_size,
          print_after, oracle, calls_left, budget, opt, n_iter, pc, iter, idx,
          minibatches, mini, grad, loss, velocity, cache, M, R, m_hat, r_hat,
          model_ahead, ret, out, oracle_calls, updates, shuffles, picks,
          params0, dicts0, objs0, before, objs_before, grad_sum, losses,
          wrote>>

session == <<X_train, y_train, alpha, mb_size, print_after, oracle>>

\* np.zeros_like over a parameter dictionary.
ZerosLike_ones(params) == [k \in DOMAIN params |-> One]

ZerosLike(params) == [k \in DOMAIN params |-> Zero]

\* util.exp_running_avg(running, new, gamma).
exp_running_avg(running, new, g) ==
    RAdd(RMul(g, running), RMul(RSub(One, g), new))

\* nn.train_step(model, X_mini, y_mini): what the oracle may answer for the
\* parameters it is handed: a gradient per key, a loss, and what it does to the
\* cache dictionary of the model it is handed.
OracleOutputs(kind, params) ==
    IF kind = "quadratic"
    THEN {[grad |-> [k \in DOMAIN params |-> RMul(Rat(2, 1), params[k])],
           loss |-> 3, write |-> "none"]}
    ELSE {[grad |-> [k \in DOMAIN params |-> Zero], loss |-> 0, write |-> "none"],
          [grad |-> [k \in DOMAIN params |->
                        IF k = "W1" THEN Rat(2, 1) ELSE Rat(-2, 1)],
           loss |-> 1, write |-> "rebind"],
          [grad |-> [k \in DOMAIN params |->
                        IF k = "W1" THEN Rat(-2, 1) ELSE Zero],
           loss |-> 2, write |-> "mutate"]}

\* The effect of the oracle's write on the heap, through dictionary d.
OracleWrite(w, ds, os, d) ==
    IF w = "rebind"
    THEN [dicts |-> [ds EXCEPT ![d] = [k \in CacheKeys |-> Len(os) + 1]],
          objs |-> Append(os, 0)]
    ELSE IF w = "mutate"
    THEN [dicts |-> ds,
          objs |-> [i \in 1..Len(os) |->
                      IF \E k \in CacheKeys : ds[d][k] = i
                      THEN os[i] + 1 ELSE os[i]]]
    ELSE [dicts |-> ds, objs |-> os]

\* ---------------------------------------------------------- update rules
\* sgd, line 38: param -= alpha * grad.
SgdStep_plus(p, g, a) == RAdd(p, RMul(a, g))

SgdStep(p, g, a) == RSub(p, RMul(a, g))

\* momentum and nesterov, lines 59 and 83: v = gamma * v + alpha * grad.
NewVelocity_nograd(v, g, a) == RAdd(RMul(gamma, v), a)

NewVelocity(v, g, a) == RAdd(RMul(gamma, v), RMul(a, g))

\* adagrad and rmsprop, lines 105 and 127:
\* param -= alpha * grad / (np.sqrt(cache) + eps).
ScaledStep(p, g, c, a) == RSub(p, RDiv(RMul(a, g), RAdd(RSqrt(c), eps)))

\* adam, line 144: t = iter.
BiasT_next(i) == i + 1

BiasT(i) == i

\* adam, lines 154-155: the bias-corrected estimate of a moment.
Hat(m, beta, t) == RDiv(m, RSub(One, RPow(beta, t)))

\* nesterov, line 78: the parameters of the lookahead model, a new dictionary.
AheadParams(params, v) ==
    [k \in DOMAIN params |-> RAdd(params[k], RMul(gamma, v[k]))]

\* nesterov, line 79: model['caches'].copy(), a new dictionary with the same
\* entries, allocated at id 2 (the previous lookahead's copy is garbage).
LookaheadCaches_alias(ds, c) == [ref |-> c, dicts |-> ds]

LookaheadCaches(ds, c) == [ref |-> 2, dicts |-> <<ds[1], ds[c]>>]

\* range(1, n_iter + 1): whether the loop runs iteration i.
InRange_dowhile(i, n) == i <= n \/ i = 1

InRange_short(i, n) == i < n

InRange(i, n) == i <= n

\* iter % print_after == 0.
LogDue_zero_based(i, every) == (i - 1) % every = 0

LogDue(i, every) == i % every = 0

\* 'Iter-{} loss: {}'.format(iter, loss).
Line(i, l) == <<"Iter-", i, " loss: ", l>>

\* ------------------------------------------------------------------ actions
Stopped == pc \in {"idle", "returned", "raised"}

\* The entry of f(model, X_train, y_train, alpha, mb_size, n, print_after): the
\* optimizer state is created (lines 47, 69, 93, 114, 136-137), then the
\* dataset is shuffled and partitioned (lines 29, 50, 72, 95, 117, 141).
Enter(f, n) ==
    /\ Stopped
    /\ calls_left > 0
    /\ n \in 0..budget
    /\ calls_left' = calls_left - 1
    /\ budget' = budget - n
    /\ opt' = f
    /\ n_iter' = n
    /\ velocity' = IF f \in {"momentum", "nesterov"}
                   THEN ZerosLike(net_params) ELSE NoState
    /\ cache' = IF f \in {"adagrad", "rmsprop"}
                THEN ZerosLike(net_params) ELSE NoState
    /\ M' = IF f = "adam" THEN ZerosLike(net_params) ELSE NoState
    /\ R' = IF f = "adam" THEN ZerosLike(net_params) ELSE NoState
    /\ minibatches' \in get_minibatch(X_train, y_train, mb_size)
    /\ shuffles' = 1
    /\ picks' = [i \in 0..(Len(minibatches') - 1) |-> 0]
    /\ iter' = 1
    /\ pc' = "loop"
    /\ idx' = 0
    /\ mini' = NoMini
    /\ grad' = NoState
    /\ loss' = 0
    /\ m_hat' = NoState
    /\ r_hat' = NoState
    /\ model_ahead' = NoModel
    /\ dicts' = <<dicts[ModelCaches]>>
    /\ ret' = "none"
    /\ out' = <<>>
    /\ oracle_calls' = 0
    /\ updates' = 0
    /\ params0' = net_params
    /\ dicts0' = <<dicts[ModelCaches]>>
    /\ objs0' = objs
    /\ before' = net_params
    /\ objs_before' = objs
    /\ grad_sum' = [k \in DOMAIN net_params |-> Zero]
    /\ losses' = <<>>
    /\ wrote' = "none"
    /\ UNCHANGED <<net_params, objs, session>>

sgd == \E n \in 0..MaxIter : Enter("sgd", n)

momentum == \E n \in 0..MaxIter : Enter("momentum", n)

nesterov == \E n \in 0..MaxIter : Enter("nesterov", n)

adagrad == \E n \in 0..MaxIter : Enter("adagrad", n)

rmsprop == \E n \in 0..MaxIter : Enter("rmsprop", n)

adam == \E n \in 0..MaxIter : Enter("adam", n)

\* Select, with the dataset shuffled and partitioned again in every iteration.
Select_reshuffle ==
    /\ pc = "loop"
    /\ InRange(iter, n_iter)
    /\ Len(minibatches) > 0
    /\ minibatches' \in get_minibatch(X_train, y_train, mb_size)
    /\ shuffles' = shuffles + 1
    /\ \E i \in 0..(Len(minibatches) - 1) :
          /\ idx' = i
          /\ mini' = minibatches'[i + 1]
          /\ picks' = [picks EXCEPT ![i] = @ + 1]
    /\ before' = net_params
    /\ objs_before' = objs
    /\ pc' = "train"
    /\ UNCHANGED <<net_params, dicts, objs, session, calls_left, budget, opt,
                   n_iter, iter, grad, loss, velocity, cache, M, R, m_hat,
                   r_hat, model_ahead, ret, out, oracle_calls, updates,
                   params0, dicts0, objs0, grad_sum, losses, wrote>>

\* Lines 32-33: idx = np.random.randint(0, len(minibatches)) and
\* X_mini, y_mini = minibatches[idx].
Select ==
    /\ pc = "loop"
    /\ InRange(iter, n_iter)
    /\ Len(minibatches) > 0
    /\ \E i \in 0..(Len(minibatches) - 1) :
          /\ idx' = i
          /\ mini' = minibatches[i + 1]
          /\ picks' = [picks EXCEPT ![i] = @ + 1]
    /\ before' = net_params
    /\ objs_before' = objs
    /\ pc' = "train"
    /\ UNCHANGED <<net_params, dicts, objs, session, calls_left, budget, opt,
                   n_iter, iter, minibatches, grad, loss, velocity, cache, M, R,
                   m_hat, r_hat, model_ahead, ret, out, oracle_calls, updates,
                   shuffles, params0, dicts0, objs0, grad_sum, losses, wrote>>

\* Line 32 on an empty partition: np.random.randint(0, 0) raises ValueError,
\* which ends the call.
Raise ==
    /\ pc = "loop"
    /\ InRange(iter, n_iter)
    /\ Len(minibatches) = 0
    /\ pc' = "raised"
    /\ UNCHANGED <<net_params, dicts, objs, session, calls_left, budget, opt,
                   n_iter, iter, idx, minibatches, mini, grad, loss, velocity,
                   cache, M, R, m_hat, r_hat, model_ahead, ret, out,
                   oracle_calls, updates, shuffles, picks, params0, dicts0,
                   objs0, before, objs_before, grad_sum, losses, wrote>>

\* Lines 35, 56, 80, 101, 123, 148: grad, loss = nn.train_step(model, ...);
\* nesterov first builds the lookahead model (lines 78-79) and hands that.
TrainStep ==
    /\ pc = "train"
    /\ LET la == LookaheadCaches(dicts, ModelCaches)
           handed == IF opt = "nesterov"
                     THEN [net_params |-> AheadParams(net_params, velocity),
                           caches |-> la.ref]
                     ELSE [net_params |-> net_params, caches |-> ModelCaches]
           ds == IF opt = "nesterov" THEN la.dicts ELSE dicts
       IN  \E o \in OracleOutputs(oracle, handed.net_params) :
              LET w == OracleWrite(o.write, ds, objs, handed.caches)
              IN  /\ grad' = o.grad
                  /\ loss' = o.loss
                  /\ dicts' = w.dicts
                  /\ objs' = w.objs
                  /\ model_ahead' = IF opt = "nesterov" THEN handed
                                    ELSE model_ahead
                  /\ losses' = Append(losses, o.loss)
                  /\ wrote' = o.write
    /\ oracle_calls' = oracle_calls + 1
    /\ pc' = "update"
    /\ UNCHANGED <<net_params, session, calls_left, budget, opt, n_iter, iter,
                   idx, minibatches, mini, velocity, cache, M, R, m_hat, r_hat,
                   ret, out, updates, shuffles, picks, params0, dicts0, objs0,
                   before, objs_before, grad_sum>>

\* The update loops "for layer in grad:" of the six optimizers.
Update ==
    /\ pc = "update"
    /\ LET ks == DOMAIN grad
           sq(k) == RMul(grad[k], grad[k])
           t == BiasT(iter)
           v2 == [k \in ks |-> NewVelocity(velocity[k], grad[k], alpha)]
           c2 == [k \in ks |->
                    IF opt = "adagrad" THEN RAdd(cache[k], sq(k))
                    ELSE exp_running_avg(cache[k], sq(k), gamma)]
           M2 == [k \in ks |-> exp_running_avg(M[k], grad[k], beta1)]
           R2 == [k \in ks |-> exp_running_avg(R[k], sq(k), beta2)]
           mh == [k \in ks |-> Hat(M2[k], beta1, t)]
           rh == [k \in ks |-> Hat(R2[k], beta2, t)]
           stepped(k) ==
               CASE opt = "sgd" -> SgdStep(net_params[k], grad[k], alpha)
                 [] opt \in {"momentum", "nesterov"} -> RSub(net_params[k], v2[k])
                 [] opt \in {"adagrad", "rmsprop"} ->
                        ScaledStep(net_params[k], grad[k], c2[k], alpha)
                 [] opt = "adam" ->
                        RSub(net_params[k],
                             RDiv(RMul(alpha, mh[k]), RAdd(RSqrt(rh[k]), eps)))
       IN  /\ net_params' = [k \in DOMAIN net_params |->
                               IF k \in ks THEN stepped(k) ELSE net_params[k]]
           /\ velocity' = IF opt \in {"momentum", "nesterov"}
                          THEN [k \in DOMAIN velocity |->
                                  IF k \in ks THEN v2[k] ELSE velocity[k]]
                          ELSE velocity
           /\ cache' = IF opt \in {"adagrad", "rmsprop"}
                       THEN [k \in DOMAIN cache |->
                               IF k \in ks THEN c2[k] ELSE cache[k]]
                       ELSE cache
           /\ M' = IF opt = "adam"
                   THEN [k \in DOMAIN M |-> IF k \in ks THEN M2[k] ELSE M[k]]
                   ELSE M
           /\ R' = IF opt = "adam"
                   THEN [k \in DOMAIN R |-> IF k \in ks THEN R2[k] ELSE R[k]]
                   ELSE R
           /\ m_hat' = IF opt = "adam" THEN mh ELSE m_hat
           /\ r_hat' = IF opt = "adam" THEN rh ELSE r_hat
           /\ grad_sum' = [k \in DOMAIN grad_sum |->
                             IF k \in ks THEN RAdd(grad_sum[k], grad[k])
                             ELSE grad_sum[k]]
    /\ updates' = updates + 1
    /\ pc' = "print"
    /\ UNCHANGED <<dicts, objs, session, calls_left, budget, opt, n_iter, iter,
                   idx, minibatches, mini, grad, loss, model_ahead, ret, out,
                   oracle_calls, shuffles, picks, params0, dicts0, objs0,
                   before, objs_before, losses, wrote>>

\* Lines 40-41 (and their copies): the progress line, then the next iteration.
Progress ==
    /\ pc = "print"
    /\ out' = IF LogDue(iter, print_after)
              THEN Append(out, Line(iter, loss)) ELSE out
    /\ iter' = iter + 1
    /\ pc' = "loop"
    /\ UNCHANGED <<net_params, dicts, objs, session, calls_left, budget, opt,
                   n_iter, idx, minibatches, mini, grad, loss, velocity, cache,
                   M, R, m_hat, r_hat, model_ahead, ret, oracle_calls, updates,
                   shuffles, picks, params0, dicts0, objs0, before, objs_before,
                   grad_sum, losses, wrote>>

\* "return model" once the range is exhausted.
Return ==
    /\ pc = "loop"
    /\ ~InRange(iter, n_iter)
    /\ ret' = "model"
    /\ pc' = "returned"
    /\ UNCHANGED <<net_params, dicts, objs, session, calls_left, budget, opt,
                   n_iter, iter, idx, minibatches, mini, grad, loss, velocity,
                   cache, M, R, m_hat, r_hat, model_ahead, out, oracle_calls,
                   updates, shuffles, picks, params0, dicts0, objs0, before,
                   objs_before, grad_sum, losses, wrote>>

\* The steps at the head of the loop, and the steps of an iteration.
LoopHead == Select \/ Raise \/ Return

Body == TrainStep \/ Update \/ Progress

Next ==
    \/ sgd
    \/ momentum
    \/ nesterov
    \/ adagrad
    \/ rmsprop
    \/ adam
    \/ Select
    \/ Raise
    \/ TrainStep
    \/ Update
    \/ Progress
    \/ Return

\* How many iterations a session may run in total.  Under the quadratic
\* oracle the parameters leave the integers, and the squared gradients of a
\* third iteration no longer fit the 32-bit integers of the model checker.
IterCap(kind) == IF kind = "quadratic" THEN Min(MaxIter, 2) ELSE MaxIter

\* The state before any call, for a session of `calls` calls.
Fresh(calls) ==
    /\ net_params = InitParams
    /\ dicts = <<[k \in CacheKeys |-> 1]>>
    /\ objs = <<0>>
    /\ calls_left = calls
    /\ budget = IterCap(oracle)
    /\ opt = "none"
    /\ n_iter = 0
    /\ pc = "idle"
    /\ iter = 1
    /\ idx = 0
    /\ minibatches = <<>>
    /\ mini = NoMini
    /\ grad = NoState
    /\ loss = 0
    /\ velocity = NoState
    /\ cache = NoState
    /\ M = NoState
    /\ R = NoState
    /\ m_hat = NoState
    /\ r_hat = NoState
    /\ model_ahead = NoModel
    /\ ret = "none"
    /\ out = <<>>
    /\ oracle_calls = 0
    /\ updates = 0
    /\ shuffles = 0
    /\ picks = <<>>
    /\ params0 = InitParams
    /\ dicts0 = dicts
    /\ objs0 = objs
    /\ before = InitParams
    /\ objs_before = objs
    /\ grad_sum = [k \in Keys |-> Zero]
    /\ losses = <<>>
    /\ wrote = "none"

\* One training call, over every combination of its arguments.
Init ==
    /\ oracle \in {"free", "quadratic"}
    /\ Fresh(1)
    /\ \E n \in TrainSizes : X_train = DataX(n) /\ y_train = DataY(n)
    /\ alpha \in Alphas
    /\ mb_size \in MbSizes
    /\ print_after \in LogIntervals

Spec == Init /\ [][Next]_vars

\* A session of up to MaxCalls calls on the same model; every call that is
\* entered runs until it returns or raises.
InitSession ==
    /\ oracle = "free"
    /\ Fresh(MaxCalls)
    /\ \E n \in TrainSizes : X_train = DataX(n) /\ y_train = DataY(n)
    /\ alpha = Rat(1, 10)
    /\ mb_size = 1
    /\ print_after \in LogIntervals

\* The call is one thread that runs to completion: a step that can be taken is
\* taken.  The weak fairness of Body is written out, with its enabling
\* condition (<<Body>>_vars is enabled exactly when pc is at one of its steps)
\* in the place of ENABLED.
BodyFair ==
    []<>(pc \notin {"train", "update", "print"}) \/ []<><<Body>>_vars

FairSpec == InitSession /\ [][Next]_vars /\ WF_vars(LoopHead) /\ BodyFair

\* get_minibatch called on its own: lines 14-25.
Partition ==
    /\ pc = "idle"
    /\ minibatches' \in get_minibatch(X_train, y_train, mb_size)
    /\ shuffles' = shuffles + 1
    /\ pc' = "partitioned"
    /\ UNCHANGED <<net_params, dicts, objs, session, calls_left, budget, opt,
                   n_iter, iter, idx, mini, grad, loss, velocity, cache, M, R,
                   m_hat, r_hat, model_ahead, ret, out, oracle_calls, updates,
                   picks, params0, dicts0, objs0, before, objs_before,
                   grad_sum, losses, wrote>>

InitMB ==
    /\ oracle = "free"
    /\ Fresh(0)
    /\ \E n \in 0..MaxRows : X_train = DataX(n) /\ y_train = DataY(n)
    /\ alpha = Rat(1, 10)
    /\ mb_size \in 1..(MaxRows + 1)
    /\ print_after = 1

NextMB == Partition

SpecMB == InitMB /\ [][NextMB]_vars

\* ------------------------------------------------------------------ claims
Running == pc \in {"loop", "train", "update", "print"}

ZeroGrad == \A k \in DOMAIN grad : grad[k] = Zero

\* C1: on a non-empty dataset a call of any of the six entry points never
\* raises, never invokes the oracle or the update rule more than n_iter times,
\* and eventually returns; when it has returned, the oracle was invoked and
\* the update rule applied exactly n_iter times, n_iter iterations were
\* completed, and the object returned is the model that was passed in.
C1_ExactlyNIter ==
    /\ [](Len(X_train) > 0 => pc # "raised")
    /\ [](oracle_calls <= n_iter /\ updates <= n_iter)
    /\ [](pc = "returned" =>
            /\ oracle_calls = n_iter
            /\ updates = n_iter
            /\ iter = n_iter + 1
            /\ ret = "model")
    /\ ((Running /\ Len(X_train) > 0) ~> (pc = "returned"))

C1_Witness ==
    /\ pc = "returned"
    /\ opt = "adam"
    /\ n_iter = MaxIter
    /\ updates = MaxIter
    /\ Len(X_train) > 0

\* C2: within a call the dataset is shuffled and partitioned once, at entry;
\* no step of the loop changes the partition, and the minibatch handed to the
\* oracle is the chunk at an index in 0..len(minibatches)-1 of that partition.
C2_OnePartition ==
    /\ [][Running => (minibatches' = minibatches /\ shuffles' = shuffles)]_vars
    /\ [](Running \/ pc = "returned" => shuffles = 1)
    /\ [](pc \in {"train", "update", "print"} =>
            /\ idx \in 0..(Len(minibatches) - 1)
            /\ mini = minibatches[idx + 1])

\* A call that chose one chunk twice and another chunk never.
C2_Witness ==
    /\ pc = "returned"
    /\ \E i \in DOMAIN picks : picks[i] >= 2
    /\ \E i \in DOMAIN picks : picks[i] = 0

\* The rows of all chunks, as <<chunk, position>> pairs.
RowsOf(mbs) ==
    UNION {{<<j, r>> : r \in 1..Len(mbs[j].X)} : j \in 1..Len(mbs)}

\* C3: get_minibatch on N rows returns ceil(N / minibatch_size) chunks, all of
\* minibatch_size rows except possibly a shorter, non-empty last one; every
\* input row is in exactly one chunk exactly once, and each row carries the
\* label of its own features.
C3_Partition ==
    pc = "partitioned" =>
        LET N == Len(X_train)
            mbs == minibatches
        IN  /\ Len(mbs) = (N \div mb_size) + (IF N % mb_size = 0 THEN 0 ELSE 1)
            /\ \A j \in 1..Len(mbs) :
                  /\ Len(mbs[j].X) = Len(mbs[j].y)
                  /\ j < Len(mbs) => Len(mbs[j].X) = mb_size
                  /\ j = Len(mbs) => Len(mbs[j].X) \in 1..mb_size
            /\ Cardinality(RowsOf(mbs)) = N
            /\ \A i \in 1..N :
                  Cardinality({c \in RowsOf(mbs) :
                                  mbs[c[1]].X[c[2]] = ToFloat(X_train[i])}) = 1
            /\ \A c \in RowsOf(mbs) :
                  \E i \in 1..N :
                      /\ mbs[c[1]].X[c[2]] = ToFloat(X_train[i])
                      /\ mbs[c[1]].y[c[2]] = y_train[i]

\* Five rows in chunks of two, shuffled: sizes 2, 2, 1.
C3_Witness ==
    /\ pc = "partitioned"
    /\ Len(X_train) = 5
    /\ mb_size = 2
    /\ Len(minibatches) = 3
    /\ Len(minibatches[3].X) = 1
    /\ minibatches[1].X[1] # ToFloat(X_train[1])

\* C4: a call with n_iter = 0 returns the model it was given with every
\* parameter and the cache structure as they were at entry, without invoking
\* the oracle and without printing.
C4_ZeroIterations ==
    (pc = "returned" /\ n_iter = 0) =>
        /\ net_params = params0
        /\ dicts = dicts0
        /\ objs = objs0
        /\ oracle_calls = 0
        /\ updates = 0
        /\ out = <<>>
        /\ ret = "model"

\* A call with n_iter = 0 on a model that an earlier call has trained.
C4_Witness ==
    /\ pc = "returned"
    /\ n_iter = 0
    /\ opt = "nesterov"
    /\ net_params # InitParams

\* C5, as claimed: after any iteration whose gradient is all zero, every
\* parameter has the value it had before that iteration.
C5_Original ==
    (pc = "print" /\ ZeroGrad) => net_params = before

\* C5, amended: after the first iteration of a call, if its gradient is all
\* zero, every parameter has the value it had before it; for sgd, adagrad and
\* rmsprop the same holds after every later iteration too.
C5_ZeroGradient ==
    (pc = "print" /\ ZeroGrad /\ (iter = 1 \/ opt \in {"sgd", "adagrad", "rmsprop"}))
        => net_params = before

\* A zero gradient in a second iteration of rmsprop, its cache no longer zero.
C5_Witness ==
    /\ pc = "print"
    /\ ZeroGrad
    /\ iter = 2
    /\ opt = "rmsprop"
    /\ cache # ZerosLike(net_params)

\* The first update of a call from parameter p with gradient g, computed from
\* p and g alone.
FirstStep(f, p, g) ==
    CASE f \in {"sgd", "momentum", "nesterov"} -> RSub(p, RMul(alpha, g))
      [] f = "adagrad" -> RSub(p, RDiv(RMul(alpha, g), RAdd(RAbs(g), eps)))
      [] f = "rmsprop" ->
             RSub(p, RDiv(RMul(alpha, g),
                          RAdd(RSqrt(RMul(Rat(1, 10), RMul(g, g))), eps)))
      [] f = "adam" -> RSub(p, RDiv(RMul(alpha, g), RAdd(RAbs(g), eps)))

\* C6: when a call enters its loop, the state of its optimizer is zero on
\* exactly the keys of the parameters, whatever earlier calls did, and its
\* first update is a function of the current parameters and the gradient only.
C6_FreshState ==
    /\ (pc = "loop" /\ iter = 1) =>
          /\ opt \in {"momentum", "nesterov"} =>
                (DOMAIN velocity = DOMAIN net_params
                    /\ \A k \in DOMAIN velocity : velocity[k] = Zero)
          /\ opt \in {"adagrad", "rmsprop"} =>
                (DOMAIN cache = DOMAIN net_params
                    /\ \A k \in DOMAIN cache : cache[k] = Zero)
          /\ opt = "adam" =>
                (DOMAIN M = DOMAIN net_params /\ DOMAIN R = DOMAIN net_params
                    /\ \A k \in DOMAIN M : M[k] = Zero /\ R[k] = Zero)
    /\ (pc = "print" /\ iter = 1) =>
          \A k \in DOMAIN net_params :
              net_params[k] = FirstStep(opt, before[k], grad[k])

\* The first update of a second call, after a call that moved the parameters.
C6_Witness ==
    /\ calls_left <= MaxCalls - 2
    /\ pc = "print"
    /\ iter = 1
    /\ opt = "momentum"
    /\ before # InitParams
    /\ ~ZeroGrad

\* C7: with a logging interval >= 1 the lines printed so far are exactly the
\* lines 'Iter-<n> loss: <loss of iteration n>' for the positive multiples n
\* of the interval among the completed iterations, in increasing order; line n
\* is printed only once update n has been applied, and a call that returned
\* has printed floor(n_iter / interval) lines.
C7_ProgressLines ==
    /\ out = [j \in 1..((iter - 1) \div print_after) |->
                 Line(j * print_after, losses[j * print_after])]
    /\ pc = "loop" => updates = iter - 1
    /\ pc = "returned" => Len(out) = n_iter \div print_after

C7_Witness ==
    /\ pc = "returned"
    /\ print_after = 2
    /\ n_iter = MaxIter
    /\ Len(out) = MaxIter \div 2
    /\ out[1] = Line(2, losses[2])
    /\ losses[1] # losses[2]

\* What C8 says of the lookahead in every case: its parameters are
\* param + gamma * v for the velocity before the update, and building it left
\* the real parameters as they were.
C8_Lookahead ==
    /\ DOMAIN model_ahead.net_params = DOMAIN net_params
    /\ \A k \in DOMAIN net_params :
          model_ahead.net_params[k] =
              RAdd(before[k], RMul(Rat(9, 10), velocity[k]))
    /\ net_params = before

\* C8, as claimed: the lookahead's cache structure is the model's own cache
\* object, so what the oracle wrote to it shows in the model's.
C8_Original ==
    (opt = "nesterov" /\ pc = "update") =>
        /\ C8_Lookahead
        /\ model_ahead.caches = ModelCaches
        /\ dicts[model_ahead.caches] = dicts[ModelCaches]

\* C8, amended: the lookahead's cache structure is a shallow copy of the
\* model's: another dictionary, so an entry the oracle rebinds in it leaves the
\* model's dictionary as it was, while the cached objects are shared, so an
\* object the oracle changes in place is changed for the model too.
C8_ShallowCopy ==
    (opt = "nesterov" /\ pc = "update") =>
        /\ C8_Lookahead
        /\ model_ahead.caches # ModelCaches
        /\ dicts[ModelCaches] = dicts0[ModelCaches]
        /\ wrote = "rebind" =>
              /\ \A k \in CacheKeys :
                    dicts[model_ahead.caches][k] \notin 1..Len(objs_before)
              /\ \A i \in 1..Len(objs_before) : objs[i] = objs_before[i]
        /\ wrote # "rebind" => dicts[model_ahead.caches] = dicts[ModelCaches]
        /\ wrote = "mutate" =>
              \A k \in CacheKeys :
                  objs[dicts[ModelCaches][k]] =
                      objs_before[dicts[ModelCaches][k]] + 1

\* The oracle rebinds a cache entry of the lookahead in a second iteration.
C8_Witness ==
    /\ opt = "nesterov"
    /\ pc = "update"
    /\ iter = 2
    /\ wrote = "rebind"
    /\ velocity # ZerosLike(net_params)
    /\ dicts[model_ahead.caches] # dicts[ModelCaches]

\* C9: an sgd iteration leaves every parameter at p0 - alpha * g; after n
\* iterations every parameter is its value at entry minus alpha times the sum
\* of the n gradients; with the oracle whose gradient is 2 * param, a parameter
\* of 10 and alpha = 0.1, the first iteration leaves 8.
C9_SgdStep ==
    opt = "sgd" =>
        /\ pc = "print" =>
              \A k \in DOMAIN net_params :
                  net_params[k] = RSub(before[k], RMul(alpha, grad[k]))
        /\ pc \in {"loop", "returned"} =>
              \A k \in DOMAIN net_params :
                  net_params[k] = RSub(params0[k], RMul(alpha, grad_sum[k]))
        /\ (pc = "print" /\ iter = 1 /\ oracle = "quadratic"
                /\ alpha = Rat(1, 10) /\ before["W1"] = Rat(10, 1)) =>
              (grad["W1"] = Rat(20, 1) /\ net_params["W1"] = Rat(8, 1))

C9_Witness ==
    /\ opt = "sgd"
    /\ pc = "returned"
    /\ n_iter = 1
    /\ oracle = "quadratic"
    /\ alpha = Rat(1, 10)
    /\ params0["W1"] = Rat(10, 1)
    /\ net_params["W1"] = Rat(8, 1)

\* C10: in adam the bias correction of an iteration uses the 1-based number of
\* that iteration within the current call, also in a later call of a session; in the first iteration M_hat = g and
\* R_hat = g**2 (g = 2 gives M = 0.2 and M_hat = 2), and the parameter moves by
\* alpha * g / (|g| + eps).
C10_AdamFirstStep ==
    (opt = "adam" /\ pc = "print") =>
        /\ iter = oracle_calls
        /\ \A k \in DOMAIN net_params :
              /\ m_hat[k] = RDiv(M[k], RSub(One, RPow(Rat(9, 10), iter)))
              /\ r_hat[k] = RDiv(R[k], RSub(One, RPow(Rat(999, 1000), iter)))
              /\ iter = 1 =>
                    /\ m_hat[k] = grad[k]
                    /\ r_hat[k] = RMul(grad[k], grad[k])
                    /\ net_params[k] =
                          RSub(before[k],
                               RDiv(RMul(alpha, grad[k]), RAdd(RAbs(grad[k]), eps)))
                    /\ grad[k] = Rat(2, 1) =>
                          (M[k] = Rat(1, 5) /\ m_hat[k] = Rat(2, 1))

C10_Witness ==
    /\ calls_left <= MaxCalls - 2
    /\ before # InitParams
    /\ opt = "adam"
    /\ pc = "print"
    /\ iter = 1
    /\ grad["W1"] = Rat(2, 1)
    /\ M["W1"] = Rat(1, 5)
    /\ m_hat["W1"] = Rat(2, 1)
    /\ net_params["W1"] # before["W1"]

====
